---- MODULE Spec2Model ----
(***************************************************************************)
(* fixit-cli: the `create` workflow (src/src/bin/actions.ts, createAction).*)
(*                                                                         *)
(* The workflow is one interactive prompt group followed by a chain of     *)
(* simple-git tasks that complete through error-first callbacks and        *)
(* promises.  A state of the model is the position of the workflow, the    *)
(* status of every git task, the repository the tasks act on, what has     *)
(* been shown to the user, and the process exit status.                    *)
(*                                                                         *)
(* simple-git: a task called on the root instance `git` starts a chain of  *)
(* its own, so tasks issued on `git` without awaiting the previous one are *)
(* in flight together; a task's callback is called with the error of that  *)
(* task only.  Node (>= 16, README "System Requirements"): a rejected      *)
(* promise nobody handles ends the process with exit status 1; a process   *)
(* with nothing left to wait for ends with exit status 0.                  *)
(*                                                                         *)
(* @clack/prompts: a started spinner holds a timer, so the process cannot  *)
(* end by itself before the spinner is stopped; releases that give stop()  *)
(* its second argument also listen for 'unhandledRejection' while a        *)
(* spinner runs, stop it and let the process go on.  p.confirm returns     *)
(* true, false, or the (truthy) cancel symbol.                             *)
(***************************************************************************)
EXTENDS Integers, Sequences, FiniteSets, TLC

\* ------------------------------------------------------------------ bounds
MaxNameLen == 2
MaxChangelogLen == 3

\* ------------------------------------------------------------- vocabulary
Chars == {" ", "a"}
Names == UNION {[1..n -> Chars] : n \in 0..MaxNameLen}
Dot == <<".">>
Templates == {"go", "git"}
Ops == {"clean", "clone", "removeRemote", "updateRef", "add", "commit"}
Status == {"idle", "running", "ok", "failed"}
NoExit == -1

VARIABLES
  pc,                 \* "start" | "name" | "template" | "async" | "confirm" | "server" | "returned" | "checking"
  input,              \* content of the name text field
  nameError,          \* validation message shown under the name field ("" when none)
  answers,            \* [name, template] as returned by p.group
  task,               \* status of each git task
  calls,              \* git calls in the order they were issued
  gitCwd,             \* working directory of the simple-git instance
  repo,               \* the project repository: [exists, commits, remotes, staged]
  log,                \* what was shown to the user, in order
  spinnerCloneStops,  \* number of spinnerClone.stop() calls
  spinnerInitStops,   \* number of spinnerInit.stop() calls
  run,                \* answer to the post-init confirm: "pending" | "yes" | "no" | "cancel"
  hugoInstalled,      \* whether shell.which('hugo') finds the binary
  shellCwd,           \* working directory of the process (shelljs)
  server,             \* [spawns, cwd, cmd]: the server subprocesses spawned
  timer,              \* [started, stops]
  check,              \* checkAction: [fetch, fetches, spinnerStops, release, notes, moduleCmd, submoduleCmd]
  help,               \* helpAction: the command keyword it was called with ("none" before)
  legacy,             \* src/lib createAction run on the same answers and git outcomes: [task, calls]
  exitCode            \* NoExit while the process lives, else its exit status

vars == <<pc, input, nameError, answers, task, calls, gitCwd, repo, log,
          spinnerCloneStops, spinnerInitStops, run, hugoInstalled, shellCwd,
          server, timer, check, help, legacy, exitCode>>

\* ------------------------------------------------------- process endings
\* process.exit(0) after a declined server start
DeclineExit == 0
\* process.exit(1) when hugo is not installed
HugoMissingExit == 1
\* a rejected promise without a handler ends a Node >= 16 process with status 1
UnhandledRejectionExit == 1
\* a process with nothing left to wait for ends with status 0
EmptyLoopExit == 0

\* ---------------------------------------------------------------- helpers
Alive == exitCode = NoExit
\* callbacks and continuations run only while the event loop is free
LoopFree == Alive /\ pc # "server"
Shown(e) == \E i \in 1..Len(log) : log[i] = e
InFlight == {o \in Ops : task[o] = "running"}
Issued(o) == task[o] # "idle"
SpinnerCloneActive == Shown("downloading") /\ spinnerCloneStops = 0
SpinnerInitActive == Shown("initStarted") /\ spinnerInitStops = 0

\* initialValue: process.argv[3] || ''
InitialValue(argv3) == argv3

\* validate: (val) => { if (val === '') return 'project name is required!' }
ValidateNothing(val) == ""
Validate(val) == IF val = <<>> THEN "project name is required!" ELSE ""

\* onCancel: p.cancel('Operation cancelled.'); process.exit(0)
OnCancelExitAsFailure == HugoMissingExit
OnCancelExit == 0

Repositories(t) ==
  IF t = "go" THEN "https://github.com/hugo-fixit/hugo-fixit-starter.git"
              ELSE "https://github.com/hugo-fixit/hugo-fixit-starter1.git"

\* cloneOptions as a set of <<option, value>>
CloneOptionsNoSubmodules(t) ==
  {<<"--depth", "1">>, <<"--branch", "main">>, <<"--single-branch", "null">>}
CloneOptions(t) ==
  {<<"--depth", "1">>, <<"--branch", "main">>, <<"--single-branch", "null">>}
  \cup (IF t = "git"
          THEN {<<"--recurse-submodules", "undefined">>,
                <<"--shallow-submodules", "undefined">>}
          ELSE {})

Call(op, args, dir, opts) == [op |-> op, args |-> args, dir |-> dir, opts |-> opts]
CleanCall == Call("clean", <<"f">>, <<>>, {})
CloneCall(a) == Call("clone", <<Repositories(a.template)>>, a.name, CloneOptions(a.template))
CwdCall(a) == Call("cwd", <<>>, a.name, {})
RemoveRemoteCall == Call("removeRemote", <<"origin">>, <<>>, {})
UpdateRefCall == Call("raw", <<"update-ref", "-d", "HEAD">>, <<>>, {})
AddCall == Call("add", <<"./*">>, <<>>, {})
CommitCall == Call("commit", <<"first commit">>, <<>>, {})

NoRepo == [exists |-> FALSE, commits |-> 0, remotes |-> {}, staged |-> FALSE]
\* a shallow clone (--depth 1) of branch main, linked to its origin
ClonedRepo == [exists |-> TRUE, commits |-> 1, remotes |-> {"origin"}, staged |-> FALSE]

\* ------------------------------------------------------------ checkAction
\* ReleaseInfo: { version, changelog, homeUrl }, the changelog a string of
\* characters with line breaks
Versions == {"v1", "v2"}
Newline == "\n"
ChangelogChars == {"x", "y", Newline}
Changelogs == UNION {[1..n -> ChangelogChars] : n \in 0..MaxChangelogLen}
Releases ==
  [version : Versions, changelog : Changelogs, homeUrl : {"https://example.com/r"}]
NoRelease == [version |-> "", changelog |-> <<>>, homeUrl |-> ""]

NoCheck ==
  [fetch |-> "idle", fetches |-> 0, spinnerStops |-> 0, release |-> NoRelease,
   notes |-> <<>>, moduleCmd |-> <<>>, submoduleCmd |-> <<>>]

\* changelog.split('\n')
RECURSIVE SplitLines(_)
SplitLines(str) ==
  IF \A i \in 1..Len(str) : str[i] # Newline
    THEN <<str>>
    ELSE LET k == CHOOSE i \in 1..Len(str) :
                    /\ str[i] = Newline
                    /\ \A j \in 1..(i - 1) : str[j] # Newline
         IN <<SubSeq(str, 1, k - 1)>> \o SplitLines(SubSeq(str, k + 1, Len(str)))

\* c.gray(line)
Gray(line) == <<"<gray>">> \o line \o <<"</gray>">>

\* lines.join('\n')
RECURSIVE JoinLines(_)
JoinLines(lines) ==
  IF Len(lines) = 0 THEN <<>>
  ELSE IF Len(lines) = 1 THEN lines[1]
  ELSE lines[1] \o <<Newline>> \o JoinLines(Tail(lines))

\* changelog.split('\n').map(line => c.gray(line)).join('\n')
RenderChangelogSkippingBlank(changelog) ==
  LET lines == SelectSeq(SplitLines(changelog), LAMBDA l : l # <<>>)
  IN JoinLines([i \in 1..Len(lines) |-> Gray(lines[i])])
RenderChangelog(changelog) ==
  LET lines == SplitLines(changelog)
  IN JoinLines([i \in 1..Len(lines) |-> Gray(lines[i])])

\* `hugo mod get -u github.com/hugo-fixit/FixIt@${version}`, then hugo mod tidy
ModuleCmd(version) ==
  <<"hugo mod get -u github.com/hugo-fixit/FixIt@", version, "hugo mod tidy">>

SubmoduleCmd == <<"git submodule update --remote --merge themes/FixIt">>

\* process.exit(1) at the end of the catch handler
CatchExitsNever == FALSE
CatchExits == TRUE
CheckFailExit == 1

\* ------------------------------------- legacy createAction (src/lib)
\* The inquirer/ora implementation, followed from the point where the
\* prompt has resolved with the same answers; each of its git tasks ends
\* the way the corresponding task of the current implementation ends.
NoLegacy == [task |-> [o \in Ops |-> "idle"], calls |-> <<>>]

LegacyRepositories(t) ==
  IF t = "go" THEN "https://github.com/hugo-fixit/hugo-fixit-starter.git"
              ELSE "https://github.com/hugo-fixit/hugo-fixit-starter1.git"

LegacyCloneOptionsRecursive(t) ==
  {<<"--depth", "1">>, <<"--branch", "main">>, <<"--single-branch", "null">>,
   <<"--recurse-submodules", "undefined">>}
LegacyCloneOptions(t) ==
  {<<"--depth", "1">>, <<"--branch", "main">>, <<"--single-branch", "null">>}
  \cup (IF t = "git"
          THEN {<<"--recurse-submodules", "undefined">>,
                <<"--shallow-submodules", "undefined">>}
          ELSE {})

LegacyCleanCall == Call("clean", <<"f">>, <<>>, {})
LegacyCloneCall(a) ==
  Call("clone", <<LegacyRepositories(a.template)>>, a.name, LegacyCloneOptions(a.template))
LegacyCwdCall(a) == Call("cwd", <<>>, a.name, {})
LegacyRemoveRemoteCall == Call("removeRemote", <<"origin">>, <<>>, {})
LegacyUpdateRefCall == Call("raw", <<"update-ref", "-d", "HEAD">>, <<>>, {})
LegacyAddCall == Call("add", <<"./*">>, <<>>, {})
LegacyCommitCall == Call("commit", <<"first commit">>, <<>>, {})

\* if (err) { spinnerClone.fail(); console.log(chalk.red(err)); return }
LegacyCloneProceeds(err) == ~err
\* .then(async () => ...) after git.raw
LegacyThenRuns(err) == ~err
\* await git.add, await git.commit
LegacyAwaitThrows(err) == err

LegacyIssue(l, ops, cs) ==
  [task |-> [o \in Ops |-> IF o \in ops THEN "running" ELSE l.task[o]],
   calls |-> l.calls \o cs]
LegacySettle(l, o, err) ==
  [l EXCEPT !.task[o] = IF err THEN "failed" ELSE "ok"]

\* git.clean, cloneOptions, git.clone
LegacyStart(a) ==
  LegacyIssue(NoLegacy, {"clean", "clone"}, <<LegacyCleanCall, LegacyCloneCall(a)>>)
\* the clone callback: git.cwd, git.removeRemote, git.raw
LegacyCloneDone(l, a, err) ==
  IF LegacyCloneProceeds(err)
    THEN LegacyIssue(LegacySettle(l, "clone", err), {"removeRemote", "updateRef"},
                     <<LegacyCwdCall(a), LegacyRemoveRemoteCall, LegacyUpdateRefCall>>)
    ELSE LegacySettle(l, "clone", err)
\* the removeRemote callback
LegacyRemoveRemoteDone(l, err) == LegacySettle(l, "removeRemote", err)
\* the update-ref callback and .then
LegacyUpdateRefDone(l, err) ==
  IF LegacyThenRuns(err)
    THEN LegacyIssue(LegacySettle(l, "updateRef", err), {"add"}, <<LegacyAddCall>>)
    ELSE LegacySettle(l, "updateRef", err)
\* await git.add
LegacyAddDone(l, err) ==
  IF LegacyAwaitThrows(err)
    THEN LegacySettle(l, "add", err)
    ELSE LegacyIssue(LegacySettle(l, "add", err), {"commit"}, <<LegacyCommitCall>>)
\* await git.commit
LegacyCommitDone(l, err) == LegacySettle(l, "commit", err)

\* ------------------------------------------------------------------- Init
Init ==
  /\ pc = "start"
  /\ input \in {InitialValue(v) : v \in Names}
  /\ nameError = ""
  /\ answers = [name |-> <<>>, template |-> "none"]
  /\ task = [o \in Ops |-> "idle"]
  /\ calls = <<>>
  /\ gitCwd = Dot
  /\ repo = NoRepo
  /\ log = <<>>
  /\ spinnerCloneStops = 0
  /\ spinnerInitStops = 0
  /\ run = "pending"
  /\ hugoInstalled \in BOOLEAN
  /\ shellCwd = Dot
  /\ server = [spawns |-> 0, cwd |-> Dot, cmd |-> ""]
  /\ timer = [started |-> FALSE, stops |-> 0]
  /\ check = NoCheck
  /\ help = "none"
  /\ legacy = NoLegacy
  /\ exitCode = NoExit

\* ---------------------------------------------------------- prompt group
\* createAction is entered: timer.start(), the name prompt opens
CreateStart ==
  /\ UNCHANGED <<check, help, legacy>>
  /\ Alive /\ pc = "start"
  /\ pc' = "name"
  /\ timer' = [timer EXCEPT !.started = TRUE]
  /\ UNCHANGED <<input, nameError, answers, task, calls, gitCwd, repo, log,
                 spinnerCloneStops, spinnerInitStops, run, hugoInstalled,
                 shellCwd, server, exitCode>>

\* the user edits the name field
TypeName(val) ==
  /\ UNCHANGED <<check, help, legacy>>
  /\ Alive /\ pc = "name"
  /\ val # input
  /\ input' = val
  /\ UNCHANGED <<pc, nameError, answers, task, calls, gitCwd, repo, log,
                 spinnerCloneStops, spinnerInitStops, run, hugoInstalled,
                 shellCwd, server, timer, exitCode>>

\* the user submits the name field: validate, then accept or keep prompting
SubmitName ==
  /\ UNCHANGED <<check, help, legacy>>
  /\ Alive /\ pc = "name"
  /\ nameError' = Validate(input)
  /\ IF Validate(input) = ""
       THEN /\ answers' = [answers EXCEPT !.name = input]
            /\ pc' = "template"
       ELSE UNCHANGED <<answers, pc>>
  /\ UNCHANGED <<input, task, calls, gitCwd, repo, log, spinnerCloneStops,
                 spinnerInitStops, run, hugoInstalled, shellCwd, server,
                 timer, exitCode>>

\* the user cancels the name or the template prompt
CancelGroup ==
  /\ UNCHANGED <<check, help, legacy>>
  /\ Alive /\ pc \in {"name", "template"}
  /\ log' = Append(log, "cancelled")
  /\ exitCode' = OnCancelExit
  /\ UNCHANGED <<pc, input, nameError, answers, task, calls, gitCwd, repo,
                 spinnerCloneStops, spinnerInitStops, run, hugoInstalled,
                 shellCwd, server, timer>>

\* the user selects a template; the group resolves and createAction runs on
\* to the end of its synchronous part: clean and clone are issued
ChooseTemplate(t) ==
  /\ UNCHANGED <<check, help>>
  /\ legacy' = LegacyStart([answers EXCEPT !.template = t])
  /\ Alive /\ pc = "template"
  /\ LET a == [answers EXCEPT !.template = t] IN
       /\ answers' = a
       /\ calls' = calls \o <<CleanCall, CloneCall(a)>>
  /\ task' = [task EXCEPT !.clean = "running", !.clone = "running"]
  /\ log' = log \o <<"initializing", "downloading">>
  /\ pc' = "async"
  /\ UNCHANGED <<input, nameError, gitCwd, repo, spinnerCloneStops,
                 spinnerInitStops, run, hugoInstalled, shellCwd, server,
                 timer, exitCode>>

\* ------------------------------------------------------------ git: clean
\* git.clean(CleanOptions.FORCE) completes.  It has no callback and nothing
\* awaits it: its result is dropped.  Whether a failure is a rejection
\* without a handler depends on the simple-git release, so both happen.
CleanDone(outcome) ==
  /\ UNCHANGED <<check, help>>
  /\ legacy' = LegacySettle(legacy, "clean", outcome # "ok")
  /\ LoopFree /\ task.clean = "running"
  /\ task' = [task EXCEPT !.clean = IF outcome = "ok" THEN "ok" ELSE "failed"]
  /\ exitCode' = IF outcome = "unhandled" THEN UnhandledRejectionExit ELSE exitCode
  /\ UNCHANGED <<pc, input, nameError, answers, calls, gitCwd, repo, log,
                 spinnerCloneStops, spinnerInitStops, run, hugoInstalled,
                 shellCwd, server, timer>>

\* ------------------------------------------------------------ git: clone
\* if (err) { spinnerClone.stop(err.message, -1); return }
CloneProceedsAlways(err) == TRUE
CloneProceeds(err) == ~err

\* spinnerClone.stop(err.message, -1) in the error branch
CloneErrorStopsNothing(err) == 0
CloneErrorStops(err) == IF err THEN 1 ELSE 0

\* the git tasks the clone callback issues before it returns
IssuedOnCloneOkNoRaw == {"removeRemote"}
IssuedOnCloneOk == {"removeRemote", "updateRef"}

InitCalls(a) ==
  <<CwdCall(a)>>
  \o (IF "removeRemote" \in IssuedOnCloneOk THEN <<RemoveRemoteCall>> ELSE <<>>)
  \o (IF "updateRef" \in IssuedOnCloneOk THEN <<UpdateRefCall>> ELSE <<>>)

\* the clone callback runs, with or without an error
CloneDone(err) ==
  /\ UNCHANGED <<check, help>>
  /\ legacy' = LegacyCloneDone(legacy, answers, err)
  /\ LoopFree /\ task.clone = "running"
  /\ LET go == CloneProceeds(err)
         t1 == [task EXCEPT !.clone = IF err THEN "failed" ELSE "ok"]
     IN
       /\ task' = IF go
                    THEN [o \in Ops |-> IF o \in IssuedOnCloneOk THEN "running" ELSE t1[o]]
                    ELSE t1
       /\ log' = log \o (IF err THEN <<"cloneError">> ELSE <<>>)
                     \o (IF go THEN <<"downloaded", "initStarted">> ELSE <<>>)
       /\ spinnerCloneStops' = spinnerCloneStops + CloneErrorStops(err)
                                                 + (IF go THEN 1 ELSE 0)
       /\ calls' = IF go THEN calls \o InitCalls(answers) ELSE calls
       /\ gitCwd' = IF go THEN answers.name ELSE gitCwd
  /\ repo' = IF err THEN repo ELSE ClonedRepo
  /\ UNCHANGED <<pc, input, nameError, answers, spinnerInitStops, run,
                 hugoInstalled, shellCwd, server, timer, exitCode>>

\* ----------------------------------------------------- git: removeRemote
\* the removeRemote callback runs:
\* if (err) { spinnerInit.stop(err.message, -1); return }
RemoveRemoteDone(err) ==
  /\ UNCHANGED <<check, help>>
  /\ legacy' = LegacyRemoveRemoteDone(legacy, err)
  /\ LoopFree /\ task.removeRemote = "running"
  /\ task' = [task EXCEPT !.removeRemote = IF err THEN "failed" ELSE "ok"]
  /\ repo' = IF err THEN repo ELSE [repo EXCEPT !.remotes = @ \ {"origin"}]
  /\ log' = Append(log, IF err THEN "removeRemoteError" ELSE "removedRemote")
  /\ spinnerInitStops' = spinnerInitStops + (IF err THEN 1 ELSE 0)
  /\ UNCHANGED <<pc, input, nameError, answers, calls, gitCwd,
                 spinnerCloneStops, run, hugoInstalled, shellCwd, server,
                 timer, exitCode>>

\* ----------------------------------------- git: raw update-ref -d HEAD
\* .then(async () => ...) runs its function only when the task succeeded
ThenRunsAlways(err) == TRUE
ThenRuns(err) == ~err

\* the update-ref callback runs, then the .then() continuation or, on an
\* error, the rejection of the promise .then() returned, which has no handler
UpdateRefDone(err) ==
  /\ UNCHANGED <<check, help>>
  /\ legacy' = LegacyUpdateRefDone(legacy, err)
  /\ LoopFree /\ task.updateRef = "running"
  /\ task' = [task EXCEPT !.updateRef = IF err THEN "failed" ELSE "ok",
                          !.add = IF ThenRuns(err) THEN "running" ELSE @]
  /\ repo' = IF err THEN repo ELSE [repo EXCEPT !.commits = 0]
  /\ log' = Append(log, IF err THEN "updateRefError" ELSE "removedHistory")
  /\ spinnerInitStops' = spinnerInitStops + (IF err THEN 1 ELSE 0)
  /\ calls' = IF ThenRuns(err) THEN Append(calls, AddCall) ELSE calls
  /\ exitCode' = IF ThenRuns(err) THEN exitCode ELSE UnhandledRejectionExit
  /\ UNCHANGED <<pc, input, nameError, answers, gitCwd, spinnerCloneStops,
                 run, hugoInstalled, shellCwd, server, timer>>

\* ------------------------------------------------------ git: add, commit
\* await of a failed task throws out of the async function
AwaitThrowsNever(err) == FALSE
AwaitThrows(err) == err

\* the async continuation threw: its promise is rejected and has no handler.
\* Either the process ends, or the listener of the running spinnerInit stops
\* that spinner and the process lives on.
ContinuationRejected ==
  \/ /\ exitCode' = UnhandledRejectionExit
     /\ UNCHANGED <<log, spinnerInitStops>>
  \/ /\ SpinnerInitActive
     /\ spinnerInitStops' = spinnerInitStops + 1
     /\ log' = Append(log, "somethingWentWrong")
     /\ UNCHANGED exitCode

\* await git.add('./*') resumes
AddDone(err) ==
  /\ UNCHANGED <<check, help>>
  /\ legacy' = LegacyAddDone(legacy, err)
  /\ LoopFree /\ task.add = "running"
  /\ task' = [task EXCEPT !.add = IF err THEN "failed" ELSE "ok",
                          !.commit = IF AwaitThrows(err) THEN @ ELSE "running"]
  /\ repo' = IF err THEN repo ELSE [repo EXCEPT !.staged = TRUE]
  /\ calls' = IF AwaitThrows(err) THEN calls ELSE Append(calls, CommitCall)
  /\ IF AwaitThrows(err)
       THEN ContinuationRejected
       ELSE UNCHANGED <<exitCode, log, spinnerInitStops>>
  /\ UNCHANGED <<pc, input, nameError, answers, gitCwd,
                 spinnerCloneStops, run, hugoInstalled,
                 shellCwd, server, timer>>

\* await git.commit('first commit') resumes; on success the spinner is
\* stopped with the success message and the confirm prompt opens
CommitDone(err) ==
  /\ UNCHANGED <<check, help>>
  /\ legacy' = LegacyCommitDone(legacy, err)
  /\ LoopFree /\ task.commit = "running"
  /\ task' = [task EXCEPT !.commit = IF err THEN "failed" ELSE "ok"]
  /\ repo' = IF err THEN repo
             ELSE [repo EXCEPT !.commits = @ + 1, !.staged = FALSE]
  /\ IF AwaitThrows(err)
       THEN /\ ContinuationRejected
            /\ UNCHANGED pc
       ELSE /\ spinnerInitStops' = spinnerInitStops + 1
            /\ log' = log \o <<"initialized", "congratulations">>
            /\ pc' = "confirm"
            /\ UNCHANGED exitCode
  /\ UNCHANGED <<input, nameError, answers, calls, gitCwd, spinnerCloneStops,
                 run, hugoInstalled, shellCwd, server, timer>>

\* ------------------------------------------------------ post-init choice
\* if (!run): p.confirm returns true, false, or the cancel symbol
Declined(r) == r = "no"

\* shell.cd(answers.name) before shell.exec
ServerDirUnchanged(a) == shellCwd
ServerDir(a) == a.name

ServerCmd == "hugo server -O"

\* timer.stop()
TimerStopForgotten(t) == t
TimerStop(t) == [t EXCEPT !.stops = @ + 1]

\* the confirm prompt returns and createAction runs to its end
Confirm(r) ==
  /\ UNCHANGED <<check, help, legacy>>
  /\ LoopFree /\ pc = "confirm"
  /\ run' = r
  /\ timer' = TimerStop(timer)
  /\ IF Declined(r)
       THEN /\ log' = log \o <<"manualCommand", "outro">>
            /\ exitCode' = DeclineExit
            /\ UNCHANGED <<pc, shellCwd, server>>
       ELSE IF ~hugoInstalled
         THEN /\ log' = log \o <<"starting", "hugoMissing", "manualCommand", "outro">>
              /\ exitCode' = HugoMissingExit
              /\ UNCHANGED <<pc, shellCwd, server>>
         ELSE /\ log' = log \o <<"starting", "command", "outro">>
              /\ shellCwd' = ServerDir(answers)
              /\ server' = [spawns |-> server.spawns + 1,
                            cwd |-> ServerDir(answers),
                            cmd |-> ServerCmd]
              /\ pc' = "server"
              /\ UNCHANGED exitCode
  /\ UNCHANGED <<input, nameError, answers, task, calls, gitCwd, repo,
                 spinnerCloneStops, spinnerInitStops, hugoInstalled>>

\* the server subprocess ends and shell.exec returns
ServerExit ==
  /\ UNCHANGED <<check, help, legacy>>
  /\ Alive /\ pc = "server"
  /\ pc' = "returned"
  /\ UNCHANGED <<input, nameError, answers, task, calls, gitCwd, repo, log,
                 spinnerCloneStops, spinnerInitStops, run, hugoInstalled,
                 shellCwd, server, timer, exitCode>>

\* nothing is left to wait for: the process ends by itself
EmptyLoop ==
  /\ UNCHANGED <<check, help, legacy>>
  /\ Alive /\ pc \in {"async", "returned"}
  /\ InFlight = {}
  /\ ~SpinnerCloneActive /\ ~SpinnerInitActive
  /\ exitCode' = EmptyLoopExit
  /\ UNCHANGED <<pc, input, nameError, answers, task, calls, gitCwd, repo,
                 log, spinnerCloneStops, spinnerInitStops, run, hugoInstalled,
                 shellCwd, server, timer>>

\* ------------------------------------------------------------ checkAction
\* checkAction is entered: timer.start(), the spinner starts, the one
\* request for the latest release is sent
CheckStart ==
  /\ UNCHANGED legacy
  /\ Alive /\ pc = "start"
  /\ pc' = "checking"
  /\ timer' = [timer EXCEPT !.started = TRUE]
  /\ check' = [check EXCEPT !.fetch = "running", !.fetches = @ + 1]
  /\ log' = Append(log, "checking")
  /\ UNCHANGED <<input, nameError, answers, task, calls, gitCwd, repo,
                 spinnerCloneStops, spinnerInitStops, run, hugoInstalled,
                 shellCwd, server, help, exitCode>>

\* getLatestRelease resolves: the .then() handler runs to its end
FetchOk(rel) ==
  /\ UNCHANGED legacy
  /\ Alive /\ pc = "checking" /\ check.fetch = "running"
  /\ check' = [check EXCEPT !.fetch = "ok",
                            !.release = rel,
                            !.notes = RenderChangelog(rel.changelog),
                            !.spinnerStops = @ + 1,
                            !.moduleCmd = ModuleCmd(rel.version),
                            !.submoduleCmd = SubmoduleCmd]
  /\ log' = log \o <<"releaseNotes", "latestVersion", "upgradeCommands", "outro">>
  /\ timer' = TimerStop(timer)
  /\ pc' = "returned"
  /\ UNCHANGED <<input, nameError, answers, task, calls, gitCwd, repo,
                 spinnerCloneStops, spinnerInitStops, run, hugoInstalled,
                 shellCwd, server, help, exitCode>>

\* getLatestRelease rejects: the .catch() handler runs to its end
FetchFailed ==
  /\ UNCHANGED legacy
  /\ Alive /\ pc = "checking" /\ check.fetch = "running"
  /\ check' = [check EXCEPT !.fetch = "failed", !.spinnerStops = @ + 1]
  /\ log' = log \o <<"fetchError", "checkFailed", "tokenHint">>
  /\ IF CatchExits
       THEN exitCode' = CheckFailExit /\ UNCHANGED pc
       ELSE pc' = "returned" /\ UNCHANGED exitCode
  /\ UNCHANGED <<input, nameError, answers, task, calls, gitCwd, repo,
                 spinnerCloneStops, spinnerInitStops, run, hugoInstalled,
                 shellCwd, server, timer, help>>

\* ------------------------------------------------------------- helpAction
HelpTopics == {"create", "check", "help", "other"}

\* the switch over the command keyword
HelpLines(command) ==
  IF command = "create" THEN <<"introCreate", "usageCreate">>
  ELSE IF command = "check" THEN <<"introCheck", "usageCheck", "tokenGuide">>
  ELSE IF command = "help" THEN <<"introHelp", "usageHelp">>
  ELSE <<"unknownTopic", "seeTopLevelHelp">>

\* helpAction runs from timer.start() to p.outro
HelpAction(command) ==
  /\ UNCHANGED legacy
  /\ Alive /\ pc = "start"
  /\ help' = command
  /\ log' = log \o HelpLines(command) \o <<"outro">>
  /\ timer' = TimerStop([timer EXCEPT !.started = TRUE])
  /\ pc' = "returned"
  /\ UNCHANGED <<input, nameError, answers, task, calls, gitCwd, repo,
                 spinnerCloneStops, spinnerInitStops, run, hugoInstalled,
                 shellCwd, server, check, exitCode>>

\* ------------------------------------------------------------------ Spec
Next ==
  \/ CreateStart
  \/ \E val \in Names : TypeName(val)
  \/ SubmitName
  \/ CancelGroup
  \/ \E t \in Templates : ChooseTemplate(t)
  \/ \E outcome \in {"ok", "swallowed", "unhandled"} : CleanDone(outcome)
  \/ \E err \in BOOLEAN : CloneDone(err)
  \/ \E err \in BOOLEAN : RemoveRemoteDone(err)
  \/ \E err \in BOOLEAN : UpdateRefDone(err)
  \/ \E err \in BOOLEAN : AddDone(err)
  \/ \E err \in BOOLEAN : CommitDone(err)
  \/ \E r \in {"yes", "no", "cancel"} : Confirm(r)
  \/ ServerExit
  \/ EmptyLoop
  \/ CheckStart
  \/ \E rel \in Releases : FetchOk(rel)
  \/ FetchFailed
  \/ \E command \in HelpTopics : HelpAction(command)

Spec == Init /\ [][Next]_vars

\* every git subprocess call and the confirm prompt eventually return, and a
\* process with nothing left to wait for ends
Fairness ==
  /\ WF_vars(\E outcome \in {"ok", "swallowed", "unhandled"} : CleanDone(outcome))
  /\ WF_vars(\E err \in BOOLEAN : CloneDone(err))
  /\ WF_vars(\E err \in BOOLEAN : RemoveRemoteDone(err))
  /\ WF_vars(\E err \in BOOLEAN : UpdateRefDone(err))
  /\ WF_vars(\E err \in BOOLEAN : AddDone(err))
  /\ WF_vars(\E err \in BOOLEAN : CommitDone(err))
  /\ WF_vars(\E r \in {"yes", "no", "cancel"} : Confirm(r))
  /\ WF_vars(EmptyLoop)

LiveSpec == Spec /\ Fairness

TypeOK ==
  /\ pc \in {"start", "name", "template", "async", "confirm", "server",
            "returned", "checking"}
  /\ input \in Names
  /\ answers.name \in Names
  /\ answers.template \in Templates \cup {"none"}
  /\ task \in [Ops -> Status]
  /\ run \in {"pending", "yes", "no", "cancel"}
  /\ exitCode \in {NoExit, 0, 1}
  /\ server.spawns \in 0..1
  /\ timer.stops \in 0..1
  /\ check.fetch \in Status /\ check.fetches \in 0..1
  /\ check.release \in Releases \cup {NoRelease}
  /\ help \in HelpTopics \cup {"none"}

\* ================================================================ claims
Finished(o) == task[o] \in {"ok", "failed"}
InitOps == {"removeRemote", "updateRef", "add", "commit"}
IsBlank(s) == \A i \in 1..Len(s) : s[i] = " "

\* C1: whenever the project is reported as initialized, the repository has
\* exactly one commit and no remote, whatever the sub-steps' outcomes were.
C1_InitializedRepoIsClean ==
  Shown("initialized") => (repo.commits = 1 /\ repo.remotes = {})

\* C2: after a clone error no later step is issued: no remote removal, no
\* history deletion, no add or commit, no confirm prompt, no server; the
\* error message is shown.
C2_CloneErrorStopsWorkflow ==
  task.clone = "failed" =>
    /\ \A o \in InitOps : task[o] = "idle"
    /\ calls = <<CleanCall, CloneCall(answers)>>
    /\ pc = "async" /\ run = "pending" /\ server.spawns = 0
    /\ Shown("cloneError") /\ ~Shown("initStarted") /\ ~Shown("initialized")
    /\ repo = NoRepo /\ gitCwd = Dot
C2_Witness ==
  task.clone = "failed" /\ task.clean = "ok" /\ ~Alive

\* C3: when the clone fails the process ends with exit status 1.
C3_CloneFailureExitsWithOne ==
  (task.clone = "failed" /\ ~Alive) => exitCode = 1

\* C4: after a successful clone history deletion is always attempted, also
\* when removing the remote failed; that failure is reported.
C4_HistoryDeletionAlwaysAttempted ==
  /\ task.clone = "ok" =>
       /\ Issued("updateRef")
       /\ \E i \in 1..Len(calls) : calls[i] = UpdateRefCall
  /\ task.removeRemote = "failed" =>
       /\ Issued("updateRef")
       /\ Shown("removeRemoteError")
C4_Witness ==
  task.removeRemote = "failed" /\ task.updateRef = "ok" /\ repo.commits = 0

C6_OneGitOperationAtATime ==
  /\ Cardinality(InFlight \ {"clean"}) <= 1
  /\ Issued("removeRemote") => Finished("clone")
  /\ Issued("updateRef") => Finished("removeRemote")
  /\ Issued("add") => Finished("updateRef")
  /\ Issued("commit") => Finished("add")

\* C7: when git add or git commit fails the workflow aborts: no success
\* message, no confirm prompt, no server, no exit with status 0.
C7_CommitFailureAborts ==
  (task.add = "failed" \/ task.commit = "failed") =>
    /\ ~Shown("initialized") /\ ~Shown("congratulations")
    /\ pc = "async" /\ run = "pending"
    /\ server.spawns = 0
    /\ ~Shown("manualCommand") /\ ~Shown("outro") /\ timer.stops = 0
    /\ task.add = "failed" => task.commit = "idle"
C7_Witness ==
  task.commit = "failed" /\ task.add = "ok"

\* C8 (as stated): for an empty or whitespace-only name no clone and no other
\* git call is ever issued.
C8_BlankNameNeverCloned ==
  (calls # <<>> \/ \E o \in Ops : Issued(o)) => ~IsBlank(answers.name)

\* C8 (amended): for an empty name no clone and no other git call is ever
\* issued: the prompt rejects the value and stays open.
C8_EmptyNameNeverCloned ==
  /\ (\/ calls # <<>>
      \/ \E o \in Ops : Issued(o)
      \/ pc \in {"template", "async", "confirm", "server"})
       => answers.name # <<>>
  /\ nameError # "" =>
       /\ pc = "name" /\ calls = <<>> /\ \A o \in Ops : task[o] = "idle"
C8_Witness ==
  nameError # "" /\ input = <<>> /\ pc = "name"

\* C9: cancelling the name/template prompt group ends the process with
\* status 0 before any git call was issued.
C9_CancelHasNoEffect ==
  Shown("cancelled") =>
    /\ exitCode = 0
    /\ calls = <<>> /\ \A o \in Ops : task[o] = "idle"
    /\ repo = NoRepo /\ server.spawns = 0
C9_Witness ==
  Shown("cancelled") /\ pc = "template" /\ answers.name # <<>>

\* C10: declining the server start gives status 0 and no server; accepting
\* without hugo gives status 1 and no server; accepting with hugo spawns
\* 'hugo server -O' exactly once, in the project directory.
C10_PostInitChoice ==
  /\ run = "no" => (exitCode = 0 /\ server.spawns = 0)
  /\ (run = "yes" /\ ~hugoInstalled) => (exitCode = 1 /\ server.spawns = 0)
  /\ (run = "yes" /\ hugoInstalled) =>
       /\ server = [spawns |-> 1, cwd |-> answers.name, cmd |-> "hugo server -O"]
       /\ shellCwd = answers.name
  /\ server.spawns <= 1
  /\ server.spawns = 1 => (run # "no" /\ hugoInstalled)
C10_Witness ==
  run = "yes" /\ hugoInstalled /\ server.spawns = 1 /\ pc = "server"

OptionKeys(opts) == {kv[1] : kv \in opts}
CloneCalls == {calls[i] : i \in {j \in 1..Len(calls) : calls[j].op = "clone"}}

\* C12: the clone options always hold depth 1, branch main and
\* single-branch; both submodule flags for template 'git' and neither for
\* 'go', whatever the name; the URL is the repository of the template.
C12_CloneSpec ==
  \A c \in CloneCalls :
    /\ {<<"--depth", "1">>, <<"--branch", "main">>} \subseteq c.opts
    /\ "--single-branch" \in OptionKeys(c.opts)
    /\ c.dir = answers.name
    /\ answers.template = "git" =>
         /\ {"--recurse-submodules", "--shallow-submodules"} \subseteq OptionKeys(c.opts)
         /\ c.args = <<"https://github.com/hugo-fixit/hugo-fixit-starter1.git">>
    /\ answers.template = "go" =>
         /\ {"--recurse-submodules", "--shallow-submodules"} \cap OptionKeys(c.opts) = {}
         /\ c.args = <<"https://github.com/hugo-fixit/hugo-fixit-starter.git">>
C12_Witness ==
  /\ answers.template = "git" /\ Len(answers.name) = 2
  /\ Cardinality(CloneCalls) = 1 /\ task.clone = "ok"

\* C13: once the clone has been issued the run eventually ends: the process
\* exits (after the post-init choice or after a failure) or hands over to
\* the server subprocess.
C13_EventuallyTerminal ==
  Issued("clone") ~> (~Alive \/ pc = "server")
C13_Witness ==
  Issued("clone") /\ ~Alive /\ task.clone = "failed" /\ task.clean = "failed"

\* C17: the initialization spinner is stopped at most once per run, and the
\* project is reported as initialized only in runs where neither the
\* remote-removal nor the history-deletion callback reported an error.
C17_OneVerdictOnInitSpinner ==
  /\ spinnerInitStops <= 1
  /\ Shown("initialized") =>
       (~Shown("removeRemoteError") /\ ~Shown("updateRefError"))

\* C18: the server is launched, and the hugo check reached, only after an
\* explicit affirmative answer to the confirm prompt.
C18_ServerOnlyOnYes ==
  (server.spawns > 0 \/ Shown("starting")) => run = "yes"

Count(e) == Cardinality({i \in 1..Len(log) : log[i] = e})

Ended == ~Alive \/ pc \in {"server", "returned"}
C14_TimerStoppedOnEveryEnd ==
  Ended => (timer.started /\ timer.stops = 1)

\* C14 (amended): timer.stop() is called at most once per run and only after
\* timer.start(): exactly once where the final "Done in" line is printed
\* (declined server start, missing hugo, server handover, successful check,
\* help) and never on prompt cancel, clone failure, history-deletion, add or
\* commit failure, or release-fetch failure.
C14_TimerStoppedWithOutro ==
  /\ timer.stops <= 1
  /\ timer.stops = 1 => timer.started
  /\ timer.stops = Count("outro")
  /\ (run # "pending" \/ pc = "server" \/ check.fetch = "ok" \/ help # "none")
       => timer.stops = 1
  /\ (\/ Shown("cancelled")
      \/ \E o \in Ops \ {"clean", "removeRemote"} : task[o] = "failed"
      \/ check.fetch = "failed")
       => timer.stops = 0
C14_Witness ==
  ~Alive /\ help = "none" /\ check.fetch = "ok" /\ timer.stops = 1

\* C15: on a successful fetch the changelog is shown line by line in its
\* original order, one styled line per line of the changelog, none dropped;
\* the module command carries the fetched version, the submodule command
\* carries none; the process does not end with a non-zero status.
Unstyled(text) == SelectSeq(text, LAMBDA ch : ch \in ChangelogChars)
Occurrences(text, ch) == Cardinality({i \in 1..Len(text) : text[i] = ch})
C15_ReleaseRendered ==
  check.fetch = "ok" =>
    /\ Unstyled(check.notes) = check.release.changelog
    /\ Occurrences(check.notes, "<gray>")
         = Occurrences(check.release.changelog, Newline) + 1
    /\ Occurrences(check.notes, "</gray>") = Occurrences(check.notes, "<gray>")
    /\ \A i \in 1..Len(check.notes) :
         /\ check.notes[i] = "<gray>" =>
              (i = 1 \/ check.notes[i - 1] = Newline)
         /\ check.notes[i] = "</gray>" =>
              (i = Len(check.notes) \/ check.notes[i + 1] = Newline)
    /\ check.moduleCmd[1] = "hugo mod get -u github.com/hugo-fixit/FixIt@"
    /\ check.moduleCmd[2] = check.release.version
    /\ check.submoduleCmd = <<"git submodule update --remote --merge themes/FixIt">>
    /\ \A v \in Versions : \A i \in 1..Len(check.submoduleCmd) :
         check.submoduleCmd[i] # v
    /\ exitCode \in {NoExit, 0}
C15_Witness ==
  /\ check.fetch = "ok" /\ exitCode = 0
  /\ check.release.version = "v2"
  /\ check.release.changelog = <<"y", Newline, "x">>

\* C16: for the same answers and the same outcome of every git call, the
\* legacy createAction and the current one issue the same git operations
\* with the same arguments in the same order, and stop at the same point on
\* each failure.
C16_LegacyIssuesSameGitOperations ==
  /\ legacy.calls = calls
  /\ legacy.task = task
C16_Witness ==
  /\ Len(legacy.calls) = 7 /\ legacy.task.commit = "ok"
  /\ answers.template = "git" /\ task.removeRemote = "failed"

====
